---- MODULE Spec2Model ----
(***************************************************************************)
(* Model of assets/js/site.js: the smart media loader (initSmartMedia),    *)
(* the YouTube IFrame API bootstrap (loadYouTubeApi) and the video portal  *)
(* controller (initVideoPortals).                                          *)
(*                                                                         *)
(* Times are in hundredths of a second, so that the 0.15 s tolerance of    *)
(* the loop watchdog is the integer 15.                                    *)
(***************************************************************************)
EXTENDS Integers, Sequences, FiniteSets

(* ------------------------------ bounds -------------------------------- *)

\* Deferred images on the page (document order).
NumImages == 2
\* Interval ids the window hands out (setInterval returns an unused id > 0).
MaxTimerId == 2
\* Promises the bootstrap can allocate.
MaxPromises == 2
\* Times the environment may invoke window.onYouTubeIframeAPIReady.
MaxReadyFirings == 2
\* Saturation of the per-image count of started loads.
MaxLoadStarts == 2
\* Further requesters of loadYouTubeApi() besides initVideoPortals.
NumExtraCallers == 2

Images == 1..NumImages
\* The two video portals of the page, in document order.
Portals == {1, 2}
TimerIds == 1..MaxTimerId
PromiseIds == 1..MaxPromises
\* Caller 0 is initVideoPortals (site.js line 277).
Callers == 0..NumExtraCallers

(* ------------------------- program constants -------------------------- *)

\* YT_STATE, site.js lines 220-227.
UNSTARTED == -1
ENDED == 0
PLAYING == 1
PAUSED == 2
BUFFERING == 3
CUED == 5
YT_STATE == {UNSTARTED, ENDED, PLAYING, PAUSED, BUFFERING, CUED}

\* The 0.15 s of `t >= end - 0.15`, in hundredths of a second.
LoopTolerance == 15

(* ------------------------------ page data ----------------------------- *)

\* img[data-src] candidates: the data-src attribute ("" is an empty
\* attribute, which the selector still matches) and whether the image sits
\* inside a [data-component="smart-media"] holder.
ImgKinds ==
  { [dataSrc |-> "a.jpg", holder |-> TRUE],
    [dataSrc |-> "a.jpg", holder |-> FALSE],
    [dataSrc |-> "",      holder |-> TRUE] }

\* Values of the data-start / data-end attributes ("null": attribute absent).
AttrValues == {"null", "0", "10", "20"}

\* Number(portal.getAttribute(name) || '0'), in hundredths of a second.
NumberAttr(a) ==
  CASE a = "null" -> 0
    [] a = "0"    -> 0
    [] a = "10"   -> 1000
    [] a = "20"   -> 2000

\* .videoPortal[data-video="youtube"] elements.
PortalKinds ==
  { [mount |-> TRUE,  videoId |-> TRUE,  startAttr |-> "10",   endAttr |-> "20",   startBtn |-> TRUE],
    [mount |-> TRUE,  videoId |-> TRUE,  startAttr |-> "10",   endAttr |-> "null", startBtn |-> TRUE],
    [mount |-> TRUE,  videoId |-> TRUE,  startAttr |-> "null", endAttr |-> "20",   startBtn |-> FALSE],
    [mount |-> TRUE,  videoId |-> TRUE,  startAttr |-> "20",   endAttr |-> "10",   startBtn |-> TRUE],
    [mount |-> FALSE, videoId |-> TRUE,  startAttr |-> "10",   endAttr |-> "20",   startBtn |-> TRUE],
    [mount |-> TRUE,  videoId |-> FALSE, startAttr |-> "10",   endAttr |-> "20",   startBtn |-> TRUE] }

VARIABLES
  pc,             \* "loading" | "idle" | "awaiting" | "mounted" | "aborted"
  hasIO,          \* 'IntersectionObserver' in window
  reduce,         \* prefersReducedMotion() as captured by initVideoPortals
  \* ---- smart media loader
  imgCfg,         \* the candidates, in document order
  imgSrc,         \* the src attribute of each image ("" while unset)
  imgListeners,   \* the load/error listeners loadImg has attached
  holderClass,    \* classes loadImg's handlers added to the holder
  observed,       \* targets the loader's IntersectionObserver observes
  imgStatus,      \* DeferredMedia.status
  loadStarts,     \* number of times the load of the image was started
  evFired,        \* load/error events the browser dispatched to the image
  \* ---- YouTube API bootstrap
  ytApiPromise,   \* 0 is null, otherwise the id of the promise
  promState,      \* "none" | "pending" | "resolved" per promise id
  settles,        \* number of pending -> resolved moves, over all promises
  windowYT,       \* window.YT && window.YT.Player
  apiScripts,     \* script[data-youtube-iframe-api] elements in the document
  scriptInjections, \* of which appended by loadYouTubeApi
  onYTReady,      \* window.onYouTubeIframeAPIReady as a call chain
  foreignCalls,   \* invocations of a callback registered by other code
  readyFirings,   \* times the SDK invoked window.onYouTubeIframeAPIReady
  received,       \* promise id each caller of loadYouTubeApi got (0: none)
  \* ---- video portals
  portalCfg,      \* the portals, in document order
  faulty,         \* portals for which `new YT.Player` throws
  player,         \* the portal's player was constructed
  clickHook,      \* the start button has its click listener
  portalIO,       \* the portal's IntersectionObserver observes it
  pagehideHook,   \* the portal's once-only pagehide listener is attached
  ready,          \* the player's onReady has fired
  isPlaying,      \* portal.classList contains 'is-playing'
  started,        \* playback was requested (autoplay or a playVideo that worked)
  loopTimer,      \* the closure's loopTimer (0 is null)
  intervals,      \* active window intervals created by the portal's ensureLoop
  userActed,      \* the start button was clicked
  last            \* the most recent handler run and the player calls it made

mediaVars == <<imgSrc, imgListeners, holderClass, observed, imgStatus,
               loadStarts, evFired>>
sdkVars == <<ytApiPromise, promState, settles, windowYT, apiScripts,
             scriptInjections, onYTReady, foreignCalls, readyFirings, received>>
portalVars == <<faulty, player, clickHook, portalIO, pagehideHook, ready,
                isPlaying, started, loopTimer, intervals, userActed, last>>
envVars == <<hasIO, reduce, imgCfg, portalCfg>>
vars == <<pc, envVars, mediaVars, sdkVars, portalVars>>

(* ------------------------- smart media loader ------------------------- *)

\* querySelectorAll('img[data-src]'), line 121.
candidates == DOMAIN imgCfg

\* Mutant: the observer keeps observing the image it is about to load.
ObservedAfterVisibleKept(i) == observed

\* io.unobserve(img), line 155.
ObservedAfterVisible(i) == observed \ {i}

\* Mutant: only the listener that ran goes away (the `once` option), the
\* other one stays attached.
ListenersAfterHandlerOnceOnly(ls, type) == ls \ {type}

\* removeEventListener('load') + removeEventListener('error'), lines
\* 132-133 and 138-139.
ListenersAfterHandler(ls, type) == {}

\* Mutant: the fallback loads nothing.
FallbackTargetsNone == {}

\* candidates.forEach(loadImg), line 163.
FallbackTargets == candidates

\* Mutant: the holder is marked as failed as soon as the load starts.
ClassesOnLoadStartEager(i) ==
  IF imgCfg[i].holder THEN holderClass[i] \cup {"has-error"} ELSE holderClass[i]

\* loadImg leaves the holder's classes alone (lines 142-146).
ClassesOnLoadStart(i) == holderClass[i]

\* The images among S whose load loadImg starts: `if (!src) return`, line 126.
Loadable(S) == {i \in S : imgCfg[i].dataSrc # ""}

Bump(n, max) == IF n < max THEN n + 1 ELSE max

\* loadImg for every image of S (lines 124-147).
LoadImgs(S) ==
  LET L == Loadable(S) IN
  /\ imgListeners' = [i \in candidates |->
        IF i \in L THEN imgListeners[i] \cup {"load", "error"} ELSE imgListeners[i]]
  /\ imgSrc' = [i \in candidates |-> IF i \in L THEN imgCfg[i].dataSrc ELSE imgSrc[i]]
  /\ imgStatus' = [i \in candidates |-> IF i \in L THEN "Loading" ELSE imgStatus[i]]
  /\ loadStarts' = [i \in candidates |->
        IF i \in L THEN Bump(loadStarts[i], MaxLoadStarts) ELSE loadStarts[i]]
  /\ holderClass' = [i \in candidates |->
        IF i \in L THEN ClassesOnLoadStart(i) ELSE holderClass[i]]

\* initSmartMedia, lines 120-165.
InitSmartMedia ==
  IF candidates = {}
    THEN UNCHANGED mediaVars
    ELSE IF hasIO
      THEN /\ observed' = candidates
           /\ UNCHANGED <<imgSrc, imgListeners, holderClass, imgStatus,
                          loadStarts, evFired>>
      ELSE /\ LoadImgs(FallbackTargets)
           /\ UNCHANGED <<observed, evFired>>

\* The IntersectionObserver callback with one entry for image i
\* (lines 151-158).
ImgIntersection(i, isIntersecting) ==
  /\ pc # "loading"
  /\ i \in observed
  /\ isIntersecting
  /\ observed' = ObservedAfterVisible(i)
  /\ LoadImgs({i})
  /\ UNCHANGED <<evFired, pc, envVars, sdkVars, portalVars>>

\* The handler's effect on the holder: holder?.classList.add(...).
HolderAfter(i, cls) ==
  IF imgCfg[i].holder THEN holderClass[i] \cup {cls} ELSE holderClass[i]

\* The browser dispatches `load` or `error` to image i; onLoad / onError
\* (lines 130-140) run when attached.
ImgEvent(i, type) ==
  /\ imgSrc[i] # ""
  /\ evFired' = [evFired EXCEPT ![i] = @ \cup {type}]
  /\ IF type \in imgListeners[i]
       THEN /\ holderClass' = [holderClass EXCEPT ![i] =
                 HolderAfter(i, IF type = "load" THEN "is-loaded" ELSE "has-error")]
            /\ imgListeners' = [imgListeners EXCEPT ![i] = ListenersAfterHandler(@, type)]
            /\ imgStatus' = [imgStatus EXCEPT ![i] =
                 IF type = "load" THEN "Loaded" ELSE "Failed"]
       ELSE UNCHANGED <<holderClass, imgListeners, imgStatus>>
  /\ UNCHANGED <<imgSrc, observed, loadStarts, pc, envVars, sdkVars, portalVars>>

(* ------------------------ YouTube API bootstrap ----------------------- *)

\* Mutant: the cached promise is never reused.
ApiPromiseCachedNever == FALSE

\* `if (ytApiPromise) return ytApiPromise`, line 232.
ApiPromiseCached == ytApiPromise # 0

\* new Promise(...): a promise that does not exist yet.
FreshPromise == CHOOSE id \in PromiseIds : promState[id] = "none"

\* Mutant: the API is never taken as already there.
ApiAvailableNever == FALSE

\* `if (window.YT && window.YT.Player)`, line 236.
ApiAvailable == windowYT

\* Mutant: the new callback replaces the previous one instead of calling it.
ChainedCallbackOverwrite(prev, id) == <<id>>

\* window.onYouTubeIframeAPIReady = () => { prev && prev(); resolve(...) }
\* (lines 244-248 and 259-263): the previous callback, then the resolve.
ChainedCallback(prev, id) == Append(prev, id)

\* Promise resolve: only a pending promise settles.
Resolved(ps, ids) ==
  [id \in PromiseIds |-> IF id \in ids /\ ps[id] = "pending" THEN "resolved" ELSE ps[id]]

\* loadYouTubeApi() called by caller c (lines 231-267).
LoadYouTubeApi(c) ==
  IF ApiPromiseCached
    THEN /\ received' = [received EXCEPT ![c] = ytApiPromise]
         /\ UNCHANGED <<ytApiPromise, promState, settles, windowYT, apiScripts,
                        scriptInjections, onYTReady, foreignCalls, readyFirings>>
    ELSE
      LET id == FreshPromise IN
      /\ \E f \in PromiseIds : promState[f] = "none"
      /\ ytApiPromise' = id
      /\ received' = [received EXCEPT ![c] = id]
      /\ IF ApiAvailable
           THEN /\ promState' = [promState EXCEPT ![id] = "resolved"]
                /\ settles' = settles + 1
                /\ UNCHANGED <<apiScripts, scriptInjections, onYTReady>>
           ELSE /\ promState' = [promState EXCEPT ![id] = "pending"]
                /\ settles' = settles
                /\ onYTReady' = ChainedCallback(onYTReady, id)
                /\ IF apiScripts > 0
                     THEN UNCHANGED <<apiScripts, scriptInjections>>
                     ELSE /\ apiScripts' = apiScripts + 1
                          /\ scriptInjections' = scriptInjections + 1
      /\ UNCHANGED <<windowYT, foreignCalls, readyFirings>>

\* A further requester calls loadYouTubeApi().
EnsureReady(c) ==
  /\ pc # "loading"
  /\ c # 0
  /\ received[c] = 0
  /\ LoadYouTubeApi(c)
  /\ UNCHANGED <<pc, envVars, mediaVars, portalVars>>

\* Elements of a sequence as a set.
Range(s) == {s[k] : k \in DOMAIN s}

\* window.onYouTubeIframeAPIReady() is invoked: each callback of the
\* chain runs in order.
InvokeReadyCallback ==
  /\ foreignCalls' = foreignCalls + Cardinality({k \in DOMAIN onYTReady : onYTReady[k] = 0})
  /\ promState' = Resolved(promState, Range(onYTReady) \ {0})
  /\ settles' = settles +
        Cardinality({id \in Range(onYTReady) \ {0} : promState[id] = "pending"})

\* The API script has run: window.YT is defined and the SDK invokes
\* window.onYouTubeIframeAPIReady.
SdkReady ==
  /\ apiScripts > 0
  /\ ~windowYT
  /\ windowYT' = TRUE
  /\ InvokeReadyCallback
  /\ UNCHANGED <<ytApiPromise, apiScripts, scriptInjections, onYTReady,
                 received, readyFirings>>
  /\ UNCHANGED <<pc, envVars, mediaVars, portalVars>>

\* The global callback is invoked once more (a second copy of the API
\* script, or other code calling it).
SdkReadyAgain ==
  /\ windowYT
  /\ readyFirings < MaxReadyFirings
  /\ readyFirings' = readyFirings + 1
  /\ InvokeReadyCallback
  /\ UNCHANGED <<ytApiPromise, windowYT, apiScripts, scriptInjections,
                 onYTReady, received>>
  /\ UNCHANGED <<pc, envVars, mediaVars, portalVars>>

(* --------------------------- video portals ---------------------------- *)

\* querySelectorAll('.videoPortal[data-video="youtube"]'), line 270.
portals == DOMAIN portalCfg

\* const start / const end, lines 283-284.
start(p) == NumberAttr(portalCfg[p].startAttr)
end(p) == NumberAttr(portalCfg[p].endAttr)

\* Mutant: portals are set up whether or not they have a mount point and a
\* video id.
MountableAlways(p) == TRUE

\* `if (!mount || !videoId) return` does not fire, line 286.
Mountable(p) == portalCfg[p].mount /\ portalCfg[p].videoId

\* playerVars after the undefined properties are deleted (lines 294-311);
\* the constant flags (controls, rel, mute, ...) are left out.
PlayerVars(p) ==
  [autoplay |-> IF reduce THEN 0 ELSE 1,
   start |-> IF start(p) > 0 THEN {start(p)} ELSE {},
   end |-> IF end(p) > 0 THEN {end(p)} ELSE {}]

\* Mutant: the range check forgets that start must be positive.
LoopRangeValidNoStart(p) == end(p) > 0 /\ end(p) > start(p)

\* `start > 0 && end > 0 && end > start`, line 324.
LoopRangeValid(p) == start(p) > 0 /\ end(p) > 0 /\ end(p) > start(p)

\* Mutant: the tolerance is dropped.
NearLoopEndExact(p, t) == t >= end(p)

\* `t >= end - 0.15`, line 330.
NearLoopEnd(p, t) == t >= end(p) - LoopTolerance

\* Mutant: loopTimer is reset but the interval is not cleared.
ClearLoopForgetful(s) == [timer |-> 0, active |-> s.active]

\* clearLoop (lines 315-320) on the closure's loopTimer and the window's
\* active intervals.
ClearLoop(s) ==
  IF s.timer # 0
    THEN [timer |-> 0, active |-> s.active \ {s.timer}]
    ELSE s

\* Mutant: ensureLoop starts the new interval without clearing the old one.
LoopBeforeRestartKept(s) == s

\* The `clearLoop()` of ensureLoop, line 325.
LoopBeforeRestart(s) == ClearLoop(s)

\* Mutant: the ready handler plays whatever the motion preference.
AutoplayOnReadyAlways == TRUE

\* `if (!reduce)`, line 348.
AutoplayOnReady == ~reduce

LoopOf(p) == [timer |-> loopTimer[p], active |-> intervals[p]]

\* Interval ids in use in the window.
ActiveIntervals == UNION {intervals[p] : p \in portals}

\* A call into the player object, and player.seekTo(t, true).
Call(op) == [op |-> op, arg |-> {}]
SeekTo(t) == [op |-> "seekTo", arg |-> {t}]

\* The record kept of a handler run: the portal (0: none), the handler, its
\* input (the state reported, the position read), the player calls it made
\* in order and the call that threw ("none": no call threw).
Ran(p, handler, input, cmds, threw) ==
  [portal |-> p, handler |-> handler, input |-> input, cmds |-> cmds,
   threw |-> threw]

\* The valid portal at which portals.forEach stops because `new YT.Player`
\* throws (line 340); 0 when it runs to the end.
ThrowsAt(F) ==
  LET T == {p \in portals : Mountable(p) /\ p \in F} IN
  IF T = {} THEN 0 ELSE CHOOSE p \in T : \A q \in T : p <= q

\* The portals the forEach sets up completely (lines 279-411).
SetUp(F) ==
  {p \in portals : Mountable(p) /\ (ThrowsAt(F) = 0 \/ p < ThrowsAt(F))}

\* Mutant: initVideoPortals goes on without waiting for the API.
ApiAwaitedSkipped == TRUE

\* `await loadYouTubeApi()`, line 277: the function resumes when the
\* promise it was handed is resolved.
ApiAwaited == received[0] # 0 /\ promState[received[0]] = "resolved"

\* The continuation of initVideoPortals after `await loadYouTubeApi()`
\* (lines 279-411). F: the portals whose player the factory fails to build.
ConstructPortals(F) ==
  /\ pc = "awaiting"
  /\ ApiAwaited
  /\ pc' = IF ThrowsAt(F) = 0 THEN "mounted" ELSE "aborted"
  /\ faulty' = F
  /\ player' = [p \in portals |-> p \in SetUp(F)]
  /\ started' = [p \in portals |-> p \in SetUp(F) /\ PlayerVars(p).autoplay = 1]
  /\ clickHook' = [p \in portals |-> p \in SetUp(F) /\ portalCfg[p].startBtn]
  /\ portalIO' = [p \in portals |-> p \in SetUp(F) /\ hasIO]
  /\ pagehideHook' = [p \in portals |-> p \in SetUp(F)]
  /\ last' = Ran(0, "construct", {}, <<>>, "none")
  /\ UNCHANGED <<ready, isPlaying, loopTimer, intervals, userActed>>
  /\ UNCHANGED <<envVars, mediaVars, sdkVars>>

\* The calls of `mute(); playVideo()` inside one try block: playVideo is
\* reached only when wanted and when mute did not throw.
MuteThenPlay(wantPlay, muteThrows) ==
  IF wantPlay /\ ~muteThrows
    THEN <<Call("mute"), Call("playVideo")>>
    ELSE <<Call("mute")>>

Calls(cmds, name) == \E k \in DOMAIN cmds : cmds[k].op = name

\* The call of `mute(); playVideo()` that threw.
Thrown(cmds, muteThrows, playThrows) ==
  IF muteThrows THEN "mute"
  ELSE IF Calls(cmds, "playVideo") /\ playThrows THEN "playVideo"
  ELSE "none"

\* events.onReady, lines 344-355.
OnReady(p, muteThrows, playThrows) ==
  LET cmds == MuteThenPlay(AutoplayOnReady, muteThrows) IN
  /\ p \in portals
  /\ player[p]
  /\ ~ready[p]
  /\ ready' = [ready EXCEPT ![p] = TRUE]
  /\ started' = [started EXCEPT ![p] = @ \/ (Calls(cmds, "playVideo") /\ ~playThrows)]
  /\ last' = Ran(p, "onReady", {}, cmds, Thrown(cmds, muteThrows, playThrows))
  /\ UNCHANGED <<faulty, player, clickHook, portalIO, pagehideHook, isPlaying,
                 loopTimer, intervals, userActed>>
  /\ UNCHANGED <<pc, envVars, mediaVars, sdkVars>>

\* The start button's click listener, lines 378-385.
StartClick(p, muteThrows, playThrows) ==
  LET cmds == MuteThenPlay(TRUE, muteThrows) IN
  /\ p \in portals
  /\ clickHook[p]
  /\ userActed' = [userActed EXCEPT ![p] = TRUE]
  /\ started' = [started EXCEPT ![p] = @ \/ (Calls(cmds, "playVideo") /\ ~playThrows)]
  /\ last' = Ran(p, "click", {}, cmds, Thrown(cmds, muteThrows, playThrows))
  /\ UNCHANGED <<faulty, player, clickHook, portalIO, pagehideHook, ready,
                 isPlaying, loopTimer, intervals>>
  /\ UNCHANGED <<pc, envVars, mediaVars, sdkVars>>

\* The states the embedded player can report: it plays only once playback
\* was requested (autoplay: 1 or a playVideo call), and it pauses or ends
\* only after it has played.
CanReport(p, state) ==
  CASE state \in {PLAYING, BUFFERING} -> started[p]
    [] state \in {PAUSED, ENDED} -> isPlaying[p]
    [] OTHER -> TRUE

\* Mutant: a BUFFERING report restarts the loop too.
StartsLoopOnBuffering(state) == state \in {PLAYING, BUFFERING}

\* `if (state === YT_STATE.PLAYING)`, line 359.
StartsLoop(state) == state = PLAYING

\* Mutant: the end of the media restarts playback only inside a valid range.
LoopsOnEndedInRange(p, state) == state = ENDED /\ LoopRangeValid(p)

\* `if (state === YT_STATE.ENDED)` and `if (start > 0)`, lines 364-366.
LoopsOnEnded(p, state) == state = ENDED /\ start(p) > 0

\* The calls of `seekTo(start, true); playVideo()` inside one try block
\* (line 367): playVideo is reached only when seekTo did not throw.
\* fault: the call that throws, if it is made ("none": neither throws).
SeekThenPlay(p, fault) ==
  IF fault = "seekTo"
    THEN <<SeekTo(start(p))>>
    ELSE <<SeekTo(start(p)), Call("playVideo")>>

\* ensureLoop (lines 322-337): the loop after the call; id is the value
\* window.setInterval returns.
EnsureLoop(p, id) ==
  IF LoopRangeValid(p)
    THEN [timer |-> id, active |-> LoopBeforeRestart(LoopOf(p)).active \cup {id}]
    ELSE LoopOf(p)

\* The values window.setInterval can return to ensureLoop when portal p
\* reports `state`: an id no active interval has; 0 when ensureLoop does
\* not get as far as setInterval.
NewTimerIds(p, state) ==
  IF StartsLoop(state) /\ LoopRangeValid(p)
    THEN TimerIds \ ((ActiveIntervals \ intervals[p])
                     \cup LoopBeforeRestart(LoopOf(p)).active)
    ELSE {0}

\* events.onStateChange, lines 356-372.
OnStateChange(p, state, id, fault) ==
  /\ p \in portals
  /\ player[p]
  /\ CanReport(p, state)
  /\ id \in NewTimerIds(p, state)
  /\ fault \in IF LoopsOnEnded(p, state)
                 THEN {"none", "seekTo", "playVideo"} ELSE {"none"}
  /\ IF StartsLoop(state)
       THEN /\ isPlaying' = [isPlaying EXCEPT ![p] = TRUE]
            /\ loopTimer' = [loopTimer EXCEPT ![p] = EnsureLoop(p, id).timer]
            /\ intervals' = [intervals EXCEPT ![p] = EnsureLoop(p, id).active]
       ELSE UNCHANGED <<isPlaying, loopTimer, intervals>>
  /\ last' = Ran(p, "onStateChange", {state},
               IF LoopsOnEnded(p, state) THEN SeekThenPlay(p, fault) ELSE <<>>,
               fault)
  /\ UNCHANGED <<faulty, player, clickHook, portalIO, pagehideHook, ready,
                 started, userActed>>
  /\ UNCHANGED <<pc, envVars, mediaVars, sdkVars>>

\* Playback positions getCurrentTime() may return, around the loop end of
\* a portal that ends at 20 s.
Positions == {0, 1984, 1985}

\* One run of the interval callback of timer id (lines 327-336).
\* getThrows: getCurrentTime() throws; t: the position it returns otherwise.
LoopTick(p, id, getThrows, t) ==
  /\ p \in portals
  /\ id \in intervals[p]
  /\ last' = Ran(p, "tick",
               IF getThrows THEN {} ELSE {t},
               IF ~getThrows /\ NearLoopEnd(p, t)
                 THEN <<Call("getCurrentTime"), SeekTo(start(p))>>
                 ELSE <<Call("getCurrentTime")>>,
               IF getThrows THEN "getCurrentTime" ELSE "none")
  /\ UNCHANGED <<faulty, player, clickHook, portalIO, pagehideHook, ready,
                 isPlaying, started, loopTimer, intervals, userActed>>
  /\ UNCHANGED <<pc, envVars, mediaVars, sdkVars>>

\* Mutant: playback is resumed when the portal comes back into view.
VisibilityCallsResume(isIntersecting) ==
  IF isIntersecting THEN <<Call("playVideo")>> ELSE <<Call("pauseVideo")>>

\* `if (entry.isIntersecting) return; try { player.pauseVideo() }`,
\* lines 399-400.
VisibilityCalls(isIntersecting) ==
  IF isIntersecting THEN <<>> ELSE <<Call("pauseVideo")>>

\* The portal's IntersectionObserver callback with one entry (lines 397-401).
PortalIntersection(p, isIntersecting) ==
  /\ p \in portals
  /\ portalIO[p]
  /\ last' = Ran(p, "visibility", {IF isIntersecting THEN "in" ELSE "out"},
               VisibilityCalls(isIntersecting), "none")
  /\ UNCHANGED <<faulty, player, clickHook, portalIO, pagehideHook, ready,
                 isPlaying, started, loopTimer, intervals, userActed>>
  /\ UNCHANGED <<pc, envVars, mediaVars, sdkVars>>

\* Mutant: the pagehide listener leaves the loop running.
LoopAfterPagehideKept(s) == s

\* The `clearLoop()` of the pagehide listener, line 409.
LoopAfterPagehide(s) == ClearLoop(s)

\* The window's pagehide event: every attached once-only listener runs
\* clearLoop and is removed (lines 408-410).
Pagehide ==
  /\ \E p \in portals : pagehideHook[p]
  /\ loopTimer' = [p \in portals |->
        IF pagehideHook[p] THEN LoopAfterPagehide(LoopOf(p)).timer ELSE loopTimer[p]]
  /\ intervals' = [p \in portals |->
        IF pagehideHook[p] THEN LoopAfterPagehide(LoopOf(p)).active ELSE intervals[p]]
  /\ pagehideHook' = [p \in portals |-> FALSE]
  /\ last' = Ran(0, "pagehide", {}, <<>>, "none")
  /\ UNCHANGED <<faulty, player, clickHook, portalIO, ready, isPlaying,
                 started, userActed>>
  /\ UNCHANGED <<pc, envVars, mediaVars, sdkVars>>

(* ------------------------------- init --------------------------------- *)

\* init() (lines 457-486): initSmartMedia, then initVideoPortals up to its
\* await (lines 269-277).
InitPage ==
  /\ pc = "loading"
  /\ InitSmartMedia
  /\ IF portals = {}
       THEN /\ pc' = "idle"
            /\ UNCHANGED sdkVars
       ELSE /\ pc' = "awaiting"
            /\ LoadYouTubeApi(0)
  /\ UNCHANGED <<envVars, portalVars>>

\* The state when the script has been evaluated and init() is about to run,
\* for a page with the given images, portals and script environment.
InitWith(imgs, pcfgs, yt, scripts, cb) ==
  /\ pc = "loading"
  /\ hasIO \in BOOLEAN
  /\ reduce \in BOOLEAN
  /\ imgCfg \in imgs
  /\ portalCfg \in pcfgs
  /\ imgSrc = [i \in DOMAIN imgCfg |-> ""]
  /\ imgListeners = [i \in DOMAIN imgCfg |-> {}]
  /\ holderClass = [i \in DOMAIN imgCfg |-> {}]
  /\ observed = {}
  /\ imgStatus = [i \in DOMAIN imgCfg |-> "Pending"]
  /\ loadStarts = [i \in DOMAIN imgCfg |-> 0]
  /\ evFired = [i \in DOMAIN imgCfg |-> {}]
  /\ ytApiPromise = 0
  /\ promState = [id \in PromiseIds |-> "none"]
  /\ settles = 0
  /\ windowYT \in yt
  /\ apiScripts \in scripts
  /\ scriptInjections = 0
  /\ onYTReady \in cb
  /\ foreignCalls = 0
  /\ readyFirings = 0
  /\ received = [c \in Callers |-> 0]
  /\ faulty = {}
  /\ player = [p \in DOMAIN portalCfg |-> FALSE]
  /\ clickHook = [p \in DOMAIN portalCfg |-> FALSE]
  /\ portalIO = [p \in DOMAIN portalCfg |-> FALSE]
  /\ pagehideHook = [p \in DOMAIN portalCfg |-> FALSE]
  /\ ready = [p \in DOMAIN portalCfg |-> FALSE]
  /\ isPlaying = [p \in DOMAIN portalCfg |-> FALSE]
  /\ started = [p \in DOMAIN portalCfg |-> FALSE]
  /\ loopTimer = [p \in DOMAIN portalCfg |-> 0]
  /\ intervals = [p \in DOMAIN portalCfg |-> {}]
  /\ userActed = [p \in DOMAIN portalCfg |-> FALSE]
  /\ last = Ran(0, "none", {}, <<>>, "none")

NoImages == {<<>>}
NoPortals == {<<>>}
PageImages == [Images -> ImgKinds]
PagePortals == [Portals -> PortalKinds]

(* ---- the smart media loader on a page without video portals ---- *)

InitMedia == InitWith(PageImages, NoPortals, {FALSE}, {0}, {<<>>})

NextMedia ==
  \/ InitPage
  \/ \E i \in Images, b \in BOOLEAN : ImgIntersection(i, b)
  \/ \E i \in Images, type \in {"load", "error"} : ImgEvent(i, type)

SpecMedia == InitMedia /\ [][NextMedia]_vars

(* ---- the API bootstrap and its requesters ---- *)

\* A page with one portal; the API may be there already, its script tag
\* may be in the markup, and other code may have set the global callback.
InitSdk ==
  InitWith(NoImages, {<<k>> : k \in PortalKinds}, BOOLEAN, {0, 1}, {<<>>, <<0>>})

NextSdk ==
  \/ InitPage
  \/ \E c \in Callers : EnsureReady(c)
  \/ SdkReady
  \/ SdkReadyAgain

SpecSdk == InitSdk /\ [][NextSdk]_vars

(* ---- the video portals of a page without deferred images ---- *)

Init == InitWith(NoImages, PagePortals, {FALSE}, {0}, {<<>>})

Next ==
  \/ InitPage
  \/ SdkReady
  \/ \E F \in SUBSET Portals : ConstructPortals(F)
  \/ \E p \in Portals, m \in BOOLEAN, y \in BOOLEAN : OnReady(p, m, y)
  \/ \E p \in Portals, m \in BOOLEAN, y \in BOOLEAN : StartClick(p, m, y)
  \/ \E p \in Portals, s \in YT_STATE, id \in {0} \cup TimerIds,
        f \in {"none", "seekTo", "playVideo"} : OnStateChange(p, s, id, f)
  \/ \E p \in Portals, id \in TimerIds, g \in BOOLEAN, t \in Positions :
        LoopTick(p, id, g, t)
  \/ \E p \in Portals, b \in BOOLEAN : PortalIntersection(p, b)
  \/ Pagehide

Spec == Init /\ [][Next]_vars

(* ---- a page with one deferred image and one video portal ---- *)

InitPageBoth ==
  InitWith({<<k>> : k \in ImgKinds}, {<<k>> : k \in PortalKinds},
           {FALSE}, {0}, {<<>>})

NextPage ==
  \/ InitPage
  \/ \E i \in candidates, b \in BOOLEAN : ImgIntersection(i, b)
  \/ \E i \in candidates, type \in {"load", "error"} : ImgEvent(i, type)
  \/ SdkReady
  \/ \E F \in SUBSET {1} : ConstructPortals(F)
  \/ \E p \in {1}, m \in BOOLEAN, y \in BOOLEAN : OnReady(p, m, y)
  \/ \E p \in {1}, m \in BOOLEAN, y \in BOOLEAN : StartClick(p, m, y)
  \/ \E p \in {1}, s \in YT_STATE, id \in {0} \cup TimerIds,
        f \in {"none", "seekTo", "playVideo"} : OnStateChange(p, s, id, f)
  \/ \E p \in {1}, id \in TimerIds, g \in BOOLEAN, t \in Positions :
        LoopTick(p, id, g, t)
  \/ \E p \in {1}, b \in BOOLEAN : PortalIntersection(p, b)
  \/ Pagehide

\* init() itself always runs: the DOMContentLoaded listener or the direct
\* call of lines 488-492.
SpecPage == InitPageBoth /\ [][NextPage]_vars /\ WF_vars(InitPage)

(* ------------------------------ claims -------------------------------- *)

\* initVideoPortals has run its forEach, to the end or to an exception.
Constructed == pc \in {"mounted", "aborted"}

\* C1: when the construction of portal a's player throws, every other
\* portal b that has a mount point and a video id, and whose own player the
\* factory can build, still gets its player, whichever of a and b comes
\* first in the document.
C1_FaultIsolated ==
  Constructed =>
    \A a \in portals, b \in portals :
      (a # b /\ Mountable(a) /\ a \in faulty /\ Mountable(b) /\ b \notin faulty)
        => player[b]

\* The status of the shared readiness value.
SdkStatus ==
  IF ytApiPromise = 0 THEN "NotRequested"
  ELSE IF promState[ytApiPromise] = "resolved" THEN "Ready"
  ELSE "Requesting"

SdkRank(st) ==
  CASE st = "NotRequested" -> 0 [] st = "Requesting" -> 1 [] st = "Ready" -> 2

C2_Shared ==
  /\ scriptInjections <= 1
  /\ apiScripts <= 1
  /\ settles <= 1
  /\ \A c \in Callers : received[c] # 0 => received[c] = ytApiPromise
  /\ \A id \in PromiseIds : id # ytApiPromise => promState[id] = "none"

C2_Forward ==
  /\ SdkRank(SdkStatus') >= SdkRank(SdkStatus)
  /\ scriptInjections' >= scriptInjections
  /\ ytApiPromise # 0 => ytApiPromise' = ytApiPromise

\* C2: over any sequence of loadYouTubeApi() calls and ready-callback
\* invocations the API script is injected at most once, every caller gets
\* the one shared promise, that promise settles at most once, and the
\* readiness status only moves forward, NotRequested to Requesting to Ready.
C2_SdkLoadedOnce == [] C2_Shared /\ [][C2_Forward]_vars

\* C2 witness: initVideoPortals and two further requesters hold the same
\* promise, which resolved after one script injection, and the ready
\* callback has been invoked again since.
C2_Witness ==
  /\ \A c \in Callers : received[c] = ytApiPromise
  /\ ytApiPromise # 0
  /\ promState[ytApiPromise] = "resolved"
  /\ scriptInjections = 1
  /\ readyFirings > 0

StatusMoves ==
  { <<"Pending", "Loading">>, <<"Loading", "Loaded">>, <<"Loading", "Failed">> }

C3_OneOutcome ==
  \A i \in candidates :
    /\ loadStarts[i] <= 1
    /\ Cardinality(holderClass[i]) <= 1
    /\ imgStatus[i] # "Pending" => i \notin observed
    /\ imgStatus[i] = "Pending" <=> imgSrc[i] = ""

C3_Step ==
  \A i \in candidates :
    imgStatus'[i] # imgStatus[i] => <<imgStatus[i], imgStatus'[i]>> \in StatusMoves

\* C3: the status of a deferred image moves only Pending to Loading and
\* Loading to Loaded or Failed; its load is started at most once, after it
\* was unobserved, and its holder never carries both 'is-loaded' and
\* 'has-error'.
C3_StatusMonotone == [] C3_OneOutcome /\ [][C3_Step]_vars

\* C3 witness: an image is Loaded although the browser dispatched an error
\* event to it as well.
C3_Witness ==
  \E i \in candidates :
    /\ imgStatus[i] = "Loaded"
    /\ evFired[i] = {"load", "error"}
    /\ holderClass[i] = {"is-loaded"}

\* C4: a portal has at most one active loop interval, the one its loopTimer
\* names, and no interval belongs to two portals.
C4_OneWatchdog ==
  /\ \A p \in portals :
       /\ Cardinality(intervals[p]) <= 1
       /\ intervals[p] = IF loopTimer[p] = 0 THEN {} ELSE {loopTimer[p]}
  /\ \A p \in portals, q \in portals : p # q => intervals[p] \cap intervals[q] = {}

\* C4 witness: both portals run a watchdog and the second one has just
\* reported PLAYING.
C4_Witness ==
  /\ \A p \in portals : loopTimer[p] # 0 /\ isPlaying[p]
  /\ last.handler = "onStateChange"
  /\ last.input = {PLAYING}

\* C5: a watchdog tick that reads a position of at least rangeEnd - 0.15 s
\* issues exactly one seek, to rangeStart; a tick that reads a lower
\* position, or whose read throws, issues none; and no handler but the tick
\* and the state-change handler seeks at all.
C5_SeekAtLoopEnd ==
  /\ last.handler = "tick" =>
       /\ last.input # {} =>
            \A t \in last.input :
              IF t >= end(last.portal) - LoopTolerance
                THEN last.cmds = <<Call("getCurrentTime"), SeekTo(start(last.portal))>>
                ELSE last.cmds = <<Call("getCurrentTime")>>
       /\ last.input = {} => last.cmds = <<Call("getCurrentTime")>>
       /\ LoopRangeValid(last.portal)
  /\ last.handler \notin {"tick", "onStateChange"} => ~Calls(last.cmds, "seekTo")

\* C5 witness: a portal that loops from 10 s to 20 s reads 19.85 s.
C5_Witness ==
  /\ last.handler = "tick"
  /\ last.input = {1985}
  /\ start(last.portal) = 1000
  /\ end(last.portal) = 2000
  /\ Calls(last.cmds, "seekTo")

\* C6: a portal whose range is not rangeEnd > rangeStart > 0 never has a
\* loop interval.
C6_NoWatchdogWithoutRange ==
  \A p \in portals :
    ~(end(p) > start(p) /\ start(p) > 0) => loopTimer[p] = 0 /\ intervals[p] = {}

\* C6 witness: a portal with an end but no start offset is playing after a
\* PLAYING report, and so is one whose end lies before its start.
C6_Witness ==
  /\ \E p \in portals : start(p) = 0 /\ end(p) > 0 /\ isPlaying[p]
  /\ \E p \in portals : start(p) > end(p) /\ end(p) > 0 /\ isPlaying[p]
  /\ last.handler = "onStateChange"
  /\ last.input = {PLAYING}

\* C7: with reduced motion the players are still constructed, with
\* autoplay off; the ready handler calls mute and nothing else; no play
\* command is issued and nothing plays before the start button is clicked;
\* a click calls mute and then, unless mute threw, playVideo; and a portal
\* that reports PLAYING is marked 'is-playing'.
C7_ReducedMotion ==
  reduce =>
    /\ pc = "mounted" =>
         \A p \in portals : Mountable(p) => player[p] /\ PlayerVars(p).autoplay = 0
    /\ last.handler = "onReady" => last.cmds = <<Call("mute")>>
    /\ (last.handler # "click" /\ Calls(last.cmds, "playVideo")) => userActed[last.portal]
    /\ \A p \in portals : ~userActed[p] => ~started[p] /\ ~isPlaying[p]
    /\ last.handler = "click" =>
         last.cmds = IF last.threw = "mute"
                       THEN <<Call("mute")>>
                       ELSE <<Call("mute"), Call("playVideo")>>
    /\ (last.handler = "onStateChange" /\ last.input = {PLAYING}) => isPlaying[last.portal]

\* C7 witness: with reduced motion a portal became ready, its start button
\* was clicked and it has just reported PLAYING.
C7_Witness ==
  /\ reduce
  /\ last.handler = "onStateChange"
  /\ last.input = {PLAYING}
  /\ ready[last.portal]
  /\ userActed[last.portal]
  /\ isPlaying[last.portal]

\* C8: without IntersectionObserver, init() starts the load of every image
\* that has a target source: after init none of them is Pending.
C8_FallbackLoadsAll ==
  (pc # "loading" /\ ~hasIO) =>
    \A i \in candidates : imgCfg[i].dataSrc # "" => imgStatus[i] # "Pending"

\* C8 witness: without IntersectionObserver, right after init two images
\* with a source are Loading and no event has fired yet.
C8_Witness ==
  /\ ~hasIO
  /\ pc # "loading"
  /\ \A i \in candidates :
       imgCfg[i].dataSrc # "" /\ imgStatus[i] = "Loading" /\ evFired[i] = {}

\* C9 as stated: an image with a target source that got no load and no
\* error event is Pending.
C9_StaysPending ==
  \A i \in candidates :
    (imgCfg[i].dataSrc # "" /\ evFired[i] = {}) => imgStatus[i] = "Pending"

\* C9: an image that got no load and no error event is Pending or, once its
\* load was started, Loading, never Loaded or Failed, and its holder has no
\* class; a holder has 'is-loaded' only after the image's load event and
\* 'has-error' only after its error event.
C9_NoSpuriousOutcome ==
  \A i \in candidates :
    /\ evFired[i] = {} => imgStatus[i] \in {"Pending", "Loading"} /\ holderClass[i] = {}
    /\ "is-loaded" \in holderClass[i] => "load" \in evFired[i]
    /\ "has-error" \in holderClass[i] => "error" \in evFired[i]
    /\ imgStatus[i] = "Loaded" => "load" \in evFired[i]
    /\ imgStatus[i] = "Failed" => "error" \in evFired[i]

\* C9 witness: an image whose load was started got no event and is still
\* Loading while another image has already failed.
C9_Witness ==
  \E i \in candidates, j \in candidates :
    /\ imgCfg[i].dataSrc # "" /\ imgCfg[i].holder
    /\ imgStatus[i] = "Loading" /\ evFired[i] = {}
    /\ imgStatus[j] = "Failed" /\ holderClass[j] = {"has-error"}

\* C10: cancelling the loop twice gives what cancelling it once gives, and
\* after a cancel the portal has no loopTimer and no active interval,
\* whether or not a watchdog was running.
C10_ClearLoopIdempotent ==
  \A p \in portals :
    LET once == ClearLoop(LoopOf(p)) IN
    /\ ClearLoop(once) = once
    /\ once.timer = 0
    /\ once.active = {}

\* C10 witness: the pagehide listener has cancelled the loop of a playing
\* portal, and the portal reported PLAYING again, so that ensureLoop
\* cancelled a second time before it started the interval now running.
C10_Witness ==
  \E p \in portals :
    /\ player[p] /\ ~pagehideHook[p]
    /\ loopTimer[p] # 0
    /\ last.handler = "onStateChange" /\ last.portal = p

C11_AfterPagehide ==
  last.handler = "pagehide" =>
    \A p \in portals :
      loopTimer[p] = 0 /\ intervals[p] = {} /\ ~pagehideHook[p]

C11_HookOnce ==
  \A p \in portals :
    /\ pagehideHook'[p] => (pagehideHook[p] \/ pc = "awaiting")
    /\ (pagehideHook[p] /\ ~pagehideHook'[p]) => last'.handler = "pagehide"

\* C11: directly after the pagehide handling no portal has a loopTimer or
\* an active interval; a portal's pagehide listener is attached only when
\* the portal is set up, is removed by the pagehide event that runs it and
\* is never attached again, so it runs, and cancels, at most once.
C11_PagehideCancels == [] C11_AfterPagehide /\ [][C11_HookOnce]_vars

\* C11 witness: pagehide has just been handled on a page whose two portals
\* both loop over a valid range and had both reported PLAYING.
C11_Witness ==
  /\ last.handler = "pagehide"
  /\ \A p \in portals : isPlaying[p] /\ end(p) > start(p) /\ start(p) > 0

\* C12: once the pagehide listener of a portal has run, the portal's
\* visibility subscription is released as well, and no visibility
\* notification issues a pause any more.
C12_ReleasedTogether ==
  /\ \A p \in portals : (player[p] /\ ~pagehideHook[p]) => ~portalIO[p]
  /\ (last.handler = "visibility" /\ Calls(last.cmds, "pauseVideo"))
        => pagehideHook[last.portal]

C13_Skipped ==
  /\ \A p \in portals :
       ~(portalCfg[p].mount /\ portalCfg[p].videoId) =>
         ~player[p] /\ ~clickHook[p] /\ ~portalIO[p] /\ ~pagehideHook[p]
           /\ ~ready[p] /\ ~isPlaying[p] /\ loopTimer[p] = 0
  /\ Constructed =>
       \A b \in portals :
         (portalCfg[b].mount /\ portalCfg[b].videoId) =>
           \/ player[b]
           \/ \E a \in portals :
                a <= b /\ a \in faulty /\ portalCfg[a].mount /\ portalCfg[a].videoId
  /\ pc = "aborted" =>
       \E a \in portals : a \in faulty /\ portalCfg[a].mount /\ portalCfg[a].videoId

C13_PlayerOnce == Constructed => player' = player

\* C13: a portal without a mount point or without a video id gets no
\* player, no click listener, no visibility subscription and no pagehide
\* listener; it raises no error; every portal that has both gets its
\* player unless a constructor call at or before it threw; and players are
\* constructed once and never replaced.
C13_InvalidSkippedAlone == [] C13_Skipped /\ [][C13_PlayerOnce]_vars

\* C13 witness: the first portal lacks its mount point and the second,
\* which comes after it, has its player and has reported PLAYING.
C13_Witness ==
  /\ pc = "mounted"
  /\ ~portalCfg[1].mount
  /\ player[2] /\ isPlaying[2] /\ ~player[1]

\* C17: in the ready handler a throwing mute() does not keep the play
\* command from being issued when reduced motion is not requested.
C17_PlayDespiteMuteFault ==
  (last.handler = "onReady" /\ ~reduce) => Calls(last.cmds, "playVideo")

\* C18: an ENDED report of a portal with a start offset makes the handler
\* seek to that offset and then, unless the seek threw, call playVideo,
\* whether or not the portal has an end bound; without a start offset an
\* ENDED report makes it call nothing; and no other report makes it call
\* anything.
C18_EndedRestarts ==
  last.handler = "onStateChange" =>
    IF last.input = {ENDED} /\ start(last.portal) > 0
      THEN last.cmds = IF last.threw = "seekTo"
                         THEN <<SeekTo(start(last.portal))>>
                         ELSE <<SeekTo(start(last.portal)), Call("playVideo")>>
      ELSE last.cmds = <<>>

\* C18 witness: a portal with a start offset of 10 s and no end bound has
\* reported ENDED, and the handler sought to 10 s and called playVideo.
C18_Witness ==
  /\ last.handler = "onStateChange"
  /\ last.input = {ENDED}
  /\ start(last.portal) = 1000
  /\ end(last.portal) = 0
  /\ last.cmds = <<SeekTo(1000), Call("playVideo")>>

C19_Notified ==
  /\ last.handler = "visibility" =>
       /\ last.input = {"out"} => last.cmds = <<Call("pauseVideo")>>
       /\ last.input = {"in"} => last.cmds = <<>>
  /\ Calls(last.cmds, "playVideo") => last.handler \in {"onReady", "click", "onStateChange"}
  /\ Calls(last.cmds, "pauseVideo") => last.handler = "visibility"

C19_StaysSubscribed == \A p \in portals : portalIO[p] => portalIO'[p]

\* C19: every notification that a portal is out of view calls pauseVideo,
\* a notification that it is in view calls nothing, the subscription stays
\* in place after a notification, and playVideo is called only by the
\* ready handler, the start button and the state-change handler.
C19_PauseOnEveryExit == [] C19_Notified /\ [][C19_StaysSubscribed]_vars

\* C19 witness: a portal that was playing and whose start button was
\* clicked has just been notified as out of view and was paused.
C19_Witness ==
  /\ last.handler = "visibility"
  /\ last.input = {"out"}
  /\ isPlaying[last.portal]
  /\ userActed[last.portal]
  /\ loopTimer[last.portal] # 0

C20_Frame ==
  \A p \in portals :
    /\ isPlaying[p] => isPlaying'[p]
    /\ (loopTimer'[p] # loopTimer[p] \/ intervals'[p] # intervals[p]) =>
         \/ last'.handler = "pagehide"
         \/ /\ last'.handler = "onStateChange"
            /\ last'.portal = p
            /\ last'.input = {PLAYING}

\* C20: 'is-playing' is never removed from a portal, and a portal's
\* loopTimer and interval change only in the pagehide handling and in the
\* handling of a PLAYING report of that portal: not on any other report,
\* not on a visibility notification, not on a click, not on a tick.
C20_LoopAndMarkerKept == [][C20_Frame]_vars

\* C20 witness: a portal with a running watchdog has just reported PAUSED;
\* the watchdog is still active and the portal still 'is-playing'.
C20_Witness ==
  /\ last.handler = "onStateChange"
  /\ last.input = {PAUSED}
  /\ loopTimer[last.portal] # 0
  /\ intervals[last.portal] = {loopTimer[last.portal]}
  /\ isPlaying[last.portal]

IsPrefix(a, b) == Len(a) <= Len(b) /\ SubSeq(b, 1, Len(a)) = a

\* The step invokes window.onYouTubeIframeAPIReady.
ReadySignalled == windowYT' # windowYT \/ readyFirings' # readyFirings

C15_Composed ==
  /\ 0 \in Range(onYTReady) => onYTReady[1] = 0
  /\ (ytApiPromise # 0 /\ promState[ytApiPromise] = "pending")
        => ytApiPromise \in Range(onYTReady)

C15_Step ==
  /\ IsPrefix(onYTReady, onYTReady')
  /\ ReadySignalled =>
       /\ foreignCalls' = foreignCalls + (IF 0 \in Range(onYTReady) THEN 1 ELSE 0)
       /\ \A id \in Range(onYTReady) \ {0} : promState'[id] = "resolved"

\* C15: installing the bootstrap's ready callback keeps a callback that
\* was registered before: the global callback only ever grows by
\* composition, the earlier callback comes first in it, and a ready signal
\* invokes the earlier callback and resolves the readiness promise.
C15_PreviousCallbackKept == [] C15_Composed /\ [][C15_Step]_vars

\* C15 witness: another script had registered a callback; the bootstrap
\* composed its own with it, the API signalled ready, the earlier callback
\* ran and the promise resolved.
C15_Witness ==
  /\ ytApiPromise # 0
  /\ onYTReady = <<0, ytApiPromise>>
  /\ foreignCalls = 1
  /\ promState[ytApiPromise] = "resolved"
  /\ scriptInjections = 1

C16_Step ==
  (ytApiPromise = 0 /\ ytApiPromise' # 0 /\ windowYT) =>
    /\ promState'[ytApiPromise'] = "resolved"
    /\ apiScripts' = apiScripts
    /\ scriptInjections' = scriptInjections
    /\ onYTReady' = onYTReady
    /\ foreignCalls' = foreignCalls

\* C16: a first loadYouTubeApi() call made while the API is already
\* available resolves the promise at once and leaves the document's script
\* elements and the global ready callback as they were.
C16_AlreadyAvailable == [][C16_Step]_vars

\* C16 witness: the API was there from the start; the promise is resolved,
\* no script element exists and the callback another script had set is
\* still the global callback, not yet invoked.
C16_Witness ==
  /\ windowYT
  /\ ytApiPromise # 0
  /\ promState[ytApiPromise] = "resolved"
  /\ apiScripts = 0
  /\ scriptInjections = 0
  /\ onYTReady = <<0>>
  /\ foreignCalls = 0

\* The browser reports the page's image as visible.
ImgBecomesVisible == \E i \in candidates : ImgIntersection(i, TRUE)

\* The continuation of `await loadYouTubeApi()` runs.
AwaitResumes == \E F \in SUBSET {1} : ConstructPortals(F)

\* The player of the page's portal reports ready.
PlayerReports == \E m \in BOOLEAN, y \in BOOLEAN : OnReady(1, m, y)

ApiPending == received[0] = 0 \/ promState[received[0]] # "resolved"

C14_NoPlayerBeforeApi ==
  ApiPending => /\ pc \in {"loading", "awaiting"}
                /\ \A p \in portals : ~player[p] /\ ~ready[p] /\ ~isPlaying[p]

C14_Apart ==
  pc # "loading" =>
    /\ mediaVars' # mediaVars => UNCHANGED <<pc, sdkVars, portalVars>>
    /\ <<pc, sdkVars, portalVars>>' # <<pc, sdkVars, portalVars>>
          => UNCHANGED mediaVars

C14_ImageLoads ==
  (pc # "loading" /\ imgCfg[1].dataSrc # "") ~> imgStatus[1] # "Pending"

C14_PortalMounts ==
  /\ (pc = "awaiting" /\ ~ApiPending) ~> Constructed
  /\ player[1] ~> ready[1]

\* C14: no player is constructed while the API promise is unresolved; a
\* step of the image loader leaves the API and the portals alone and the
\* other way round; when the browser reports the image visible its load
\* starts whether or not the API ever becomes ready; and when the
\* continuation of the await and the player's ready event are delivered,
\* the portals are mounted and become ready whether or not any image step
\* ever happens.
C14_Independent ==
  /\ [] C14_NoPlayerBeforeApi
  /\ [][C14_Apart]_vars
  /\ (WF_vars(ImgBecomesVisible) => C14_ImageLoads)
  /\ (WF_vars(AwaitResumes) /\ WF_vars(PlayerReports) => C14_PortalMounts)

\* C14 witness: the image has finished loading while the API promise is
\* still pending and no player exists.
C14_Witness ==
  /\ pc = "awaiting"
  /\ ApiPending
  /\ imgStatus[1] \in {"Loaded", "Failed"}
  /\ ~player[1]

====
